---- MODULE Spec2Model ----
(***************************************************************************)
(* A model of the WebLogic exporter (src/main.go): the startup sequence of *)
(* main, and ProcessCollector.Collect, which on every scrape queries the   *)
(* admin server's serverRuntimes endpoint and the local process table and  *)
(* sends gauge samples on the registry's channel.                          *)
(*                                                                         *)
(* Collect is a sequence of steps, one per call that waits on the network  *)
(* or the operating system: the GET, the decoding of the body, the         *)
(* enumeration of the processes and each CmdlineSlice.  Several scrapes    *)
(* may be inside Collect at once, and the network and the process table    *)
(* may change between the steps of one scrape.                             *)
(*                                                                         *)
(* Strings are TLA+ strings; "+" on strings is \o and fmt.Sprintf("%d", n) *)
(* is ToString(n).  The arguments of a process are arbitrary bytes: the    *)
(* strings of NonUTF8 stand for byte strings that are not valid UTF-8, on  *)
(* which MustNewConstMetric panics.  The registry runs Collect in a        *)
(* goroutine of its own, where nothing recovers the panic, so that the     *)
(* panic ends the program.                                                 *)
(***************************************************************************)
EXTENDS Integers, Sequences, FiniteSets, TLC

VARIABLES
    pc,            \* position of main: "main", "validate", "register", "listen",
                   \* "serving", "exited" (by os.Exit or by a panic)
    argv,          \* the command line, one entry per -name value pair
    flags,         \* the values of the five flag variables
    exitStatus,    \* status the program exited with (meaningful when pc = "exited")
    collector,     \* the ProcessCollector built by NewProcessCollector
    registered,    \* prometheus.MustRegister(collector) has run
    listening,     \* http.ListenAndServe has bound the listener
    upstream,      \* environment: the admin server's answer (status, body)
    procs,         \* environment: the operating system's live process table
    sc             \* per scrape handler: the Collect call it is in or has finished

mainVars == <<pc, argv, flags, exitStatus, collector, registered, listening>>
envVars == <<upstream, procs>>
vars == <<mainVars, envVars, sc>>

\* the goroutines of the HTTP server that may be inside Collect at once
Scrapers == {"s1", "s2"}

(***************************************************************************)
(* Bounds of the model.                                                    *)
(***************************************************************************)
MaxItems == 2      \* longest body.items
MaxArgs == 2       \* longest argument vector
MaxProcs == 2      \* largest process table

(***************************************************************************)
(* Program constants.                                                      *)
(***************************************************************************)
StatusOK == 200
DefaultPort == 9255
UsageExit == 1
HelpExit == 0          \* flag.Parse under ExitOnError, on -h or -help
ParseErrorExit == 2    \* flag.Parse under ExitOnError, on any other error
PanicExit == 2         \* the Go runtime, on a panic that is not recovered

(***************************************************************************)
(* Metric descriptors and samples.                                         *)
(***************************************************************************)
NewDesc(fqName, variableLabels) ==
    [fqName |-> fqName, variableLabels |-> variableLabels]

\* stand-ins for byte strings that are not valid UTF-8
NonUTF8 == {"-Dlabel=<0xFF>"}

\* utf8.ValidString
ValidUTF8(v) == v \notin NonUTF8

\* what MustNewConstMetric gives when NewConstMetric returns an error
Panic == [panic |-> TRUE]

\* prometheus.MustNewConstMetric(desc, GaugeValue, value, labelValues...):
\* it panics when the number of label values is not that of the descriptor,
\* or when a label value is not valid UTF-8
MustNewConstMetric(desc, value, labelValues) ==
    IF \/ Len(labelValues) # Len(desc.variableLabels)
       \/ \E i \in 1..Len(labelValues) : ~ValidUTF8(labelValues[i])
    THEN Panic
    ELSE [name   |-> desc.fqName,
          labels |-> [i \in 1..Len(desc.variableLabels) |->
                         <<desc.variableLabels[i], labelValues[i]>>],
          value  |-> value]

NewProcessCollector(adminURL, username, password, serverName) ==
    [adminURL   |-> adminURL,
     username   |-> username,
     password   |-> password,
     serverName |-> serverName,
     adminUpDesc      |-> NewDesc("weblogic_admin_server_up", <<>>),
     serverStatusDesc |-> NewDesc("weblogic_server_up", <<"server_name">>),
     processArgDesc   |-> NewDesc("process_arg",
                                  <<"server_name", "pid", "index", "value">>)]

\* the nil collector before NewProcessCollector has run
NoCollector == NewProcessCollector("", "", "", "")

(***************************************************************************)
(* The pieces of Collect.                                                  *)
(***************************************************************************)
\* variant: a malformed body is taken for an empty collection, no error
DecodeLenient(body) ==
    [err |-> FALSE,
     runtimes |-> [Body |-> [Items |-> IF body.wellformed THEN body.items ELSE <<>>]]]

\* json.NewDecoder(resp.Body).Decode(&runtimes)
Decode(body) ==
    IF body.wellformed
    THEN [err |-> FALSE, runtimes |-> [Body |-> [Items |-> body.items]]]
    ELSE [err |-> TRUE,  runtimes |-> [Body |-> [Items |-> <<>>]]]

\* variant: the state is compared without regard to case
IsRunningAnyCase(state) == state \in {"RUNNING", "running"}

\* server.State == "RUNNING"
IsRunning(state) == state = "RUNNING"

\* variant: the loop has no break, every entry with the name sends a sample
RECURSIVE ServerStatusNoBreak(_, _)
ServerStatusNoBreak(c, items) ==
    IF items = <<>>
    THEN [serverFound |-> FALSE, out |-> <<>>]
    ELSE LET server == Head(items)
             rest   == ServerStatusNoBreak(c, Tail(items))
         IN IF server.name = c.serverName
            THEN [serverFound |-> TRUE,
                  out |-> <<MustNewConstMetric(c.serverStatusDesc,
                                IF IsRunning(server.state) THEN 1 ELSE 0,
                                <<server.name>>)>> \o rest.out]
            ELSE rest

\* the loop over runtimes.Body.Items: the first entry with the name decides.
\* The label is the name as the JSON decoder gave it, which is valid UTF-8
\* (the decoder replaces the bytes that are not), so this call does not panic.
RECURSIVE ServerStatus(_, _)
ServerStatus(c, items) ==
    IF items = <<>>
    THEN [serverFound |-> FALSE, out |-> <<>>]
    ELSE LET server == Head(items) IN
         IF server.name = c.serverName
         THEN [serverFound |-> TRUE,
               out |-> <<MustNewConstMetric(c.serverStatusDesc,
                             IF IsRunning(server.state) THEN 1 ELSE 0,
                             <<server.name>>)>>]
         ELSE ServerStatus(c, Tail(items))

\* slices.Contains
Contains(s, v) == \E i \in 1..Len(s) : s[i] = v

Marker(c) == "-Dweblogic.Name=" \o c.serverName

\* p.CmdlineSlice(): the arguments are read when it is called; a process
\* that has exited since the enumeration, or that may not be read, is an error
CmdlineSlice(p) ==
    IF \E i \in 1..Len(procs) : procs[i].pid = p.pid /\ procs[i].readable
    THEN [err |-> FALSE,
          cmdline |-> procs[CHOOSE i \in 1..Len(procs) : procs[i].pid = p.pid].cmdline]
    ELSE [err |-> TRUE, cmdline |-> <<>>]

\* variant: the pid label is the exporter's own pid, not the process's
ArgMetricsSelfPid(c, p, cmdline) ==
    [i \in 1..Len(cmdline) |->
        MustNewConstMetric(c.processArgDesc, 1,
            <<c.serverName, ToString(1), ToString(i - 1), cmdline[i]>>)]

\* the inner loop: one MustNewConstMetric per argument, index 0-based
ArgMetrics(c, p, cmdline) ==
    [i \in 1..Len(cmdline) |->
        MustNewConstMetric(c.processArgDesc, 1,
            <<c.serverName, ToString(p.pid), ToString(i - 1), cmdline[i]>>)]

\* a call of the inner loop panics
Panics(ms) == \E i \in 1..Len(ms) : ms[i] = Panic

\* the samples the inner loop sends: all of them, or those before the panic
Sent(ms) ==
    IF Panics(ms)
    THEN SubSeq(ms, 1, (CHOOSE i \in 1..Len(ms) :
                           ms[i] = Panic /\ \A j \in 1..(i - 1) : ms[j] # Panic) - 1)
    ELSE ms

\* variant: only a 5xx status counts as a failure
StatusNotOKServerError(resp) == resp.status >= 500

\* resp.StatusCode != http.StatusOK
StatusNotOK(resp) == resp.status # StatusOK

(***************************************************************************)
(* main.                                                                   *)
(***************************************************************************)
\* the negation of the test that guards the usage exit
FlagsValid(f) ==
    ~(f.adminURL = "" \/ f.username = "" \/ f.password = "" \/ f.serverName = "")

\* the flag variables as the five definitions leave them
DefaultFlags ==
    [adminURL |-> "", username |-> "", password |-> "", serverName |-> "",
     port |-> DefaultPort]

DefinedFlags == {"admin-url", "username", "password", "server-name", "port"}

\* the decimal numerals that occur on the command lines
Numerals == ("9300" :> 9300)

\* strconv.ParseInt in the Set method of an int flag: on a value that is no
\* number it returns 0 and an error
ParseInt(v) ==
    IF v \in DOMAIN Numerals THEN [err |-> FALSE, n |-> Numerals[v]]
                              ELSE [err |-> TRUE, n |-> 0]

\* the Set method of a string flag
SetString(f, name, v) ==
    CASE name = "admin-url"   -> [f EXCEPT !.adminURL = v]
      [] name = "username"    -> [f EXCEPT !.username = v]
      [] name = "password"    -> [f EXCEPT !.password = v]
      [] name = "server-name" -> [f EXCEPT !.serverName = v]

\* FlagSet.Parse: the arguments in order, stopping at the first error; -h and
\* -help, which are not defined, give ErrHelp.  The Set method of an int flag
\* stores what ParseInt returned before it returns the error, so that a -port
\* that is no number leaves 0 in the variable.
RECURSIVE ParseArgs(_, _)
ParseArgs(f, args) ==
    IF args = <<>>
    THEN [err |-> "none", flags |-> f]
    ELSE LET a == Head(args) IN
         IF a.name \notin DefinedFlags
         THEN [err |-> IF a.name \in {"h", "help"} THEN "help" ELSE "undefined",
               flags |-> f]
         ELSE IF a.name = "port"
         THEN LET n == ParseInt(a.value) IN
              IF n.err THEN [err |-> "invalid", flags |-> [f EXCEPT !.port = n.n]]
              ELSE ParseArgs([f EXCEPT !.port = n.n], Tail(args))
         ELSE ParseArgs(SetString(f, a.name, a.value), Tail(args))

\* flag.Parse() on the command line: under flag.ExitOnError an error exits,
\* with status 0 for a help request and 2 otherwise
MainParse ==
    /\ pc = "main"
    /\ LET r == ParseArgs(flags, argv) IN
       /\ flags' = r.flags
       /\ IF r.err = "none"
          THEN /\ pc' = "validate"
               /\ UNCHANGED exitStatus
          ELSE /\ pc' = "exited"
               /\ exitStatus' = IF r.err = "help" THEN HelpExit ELSE ParseErrorExit
    /\ UNCHANGED <<argv, collector, registered, listening, envVars, sc>>

\* the validation of the required flags
MainValidate ==
    /\ pc = "validate"
    /\ IF FlagsValid(flags)
       THEN /\ pc' = "register"
            /\ UNCHANGED exitStatus
       ELSE /\ pc' = "exited"
            /\ exitStatus' = UsageExit
    /\ UNCHANGED <<argv, flags, collector, registered, listening, envVars, sc>>

\* NewProcessCollector and prometheus.MustRegister
MainRegister ==
    /\ pc = "register"
    /\ collector' = NewProcessCollector(flags.adminURL, flags.username,
                                        flags.password, flags.serverName)
    /\ registered' = TRUE
    /\ pc' = "listen"
    /\ UNCHANGED <<argv, flags, exitStatus, listening, envVars, sc>>

\* http.ListenAndServe binds the port and serves
MainListen ==
    /\ pc = "listen"
    /\ listening' = TRUE
    /\ pc' = "serving"
    /\ UNCHANGED <<argv, flags, exitStatus, collector, registered, envVars, sc>>

\* http.ListenAndServe fails to bind: log.Fatalf exits with status 1
MainListenFails ==
    /\ pc = "listen"
    /\ pc' = "exited"
    /\ exitStatus' = 1
    /\ UNCHANGED <<argv, flags, collector, registered, listening, envVars, sc>>

(***************************************************************************)
(* Collect, step by step.  sc[s] holds the locals of the call: where it    *)
(* is, what its calls returned, and what it has sent and logged so far.    *)
(***************************************************************************)
\* the body of a response that was not received
NoBody == [wellformed |-> FALSE, items |-> <<>>]

\* a handler that has not scraped yet
Idle ==
    [pc         |-> "idle",
     resp       |-> [err |-> FALSE, status |-> 0, body |-> NoBody],
     bodyRead   |-> FALSE,     \* the decoder ran on the body
     decErr     |-> FALSE,     \* and returned an error
     runtimes   |-> [Body |-> [Items |-> <<>>]],
     tableRead  |-> FALSE,     \* process.Processes() was called
     tableErr   |-> FALSE,     \* and returned an error
     processes  |-> <<>>,      \* the processes it returned
     reads      |-> <<>>,      \* what CmdlineSlice returned, per process visited
     ch         |-> <<>>,      \* the samples sent
     logged     |-> <<>>,      \* the lines logged
     prevDown   |-> FALSE]     \* the handler's previous scrape found the admin down

IsDown(l) == l.resp.err \/ StatusNotOK(l.resp)

\* the locals of a call that starts on handler s
Fresh(s) == [Idle EXCEPT !.prevDown = (sc[s].pc = "done" /\ IsDown(sc[s]))]

CanScrape(s) ==
    /\ pc = "serving"
    /\ registered
    /\ sc[s].pc \in {"idle", "done"}

\* c.client.Get returns a transport error (refused, timeout)
CollectGetFails(s) ==
    /\ CanScrape(s)
    /\ sc' = [sc EXCEPT ![s] =
                [Fresh(s) EXCEPT
                    !.pc = "done",
                    !.resp = [err |-> TRUE, status |-> 0, body |-> NoBody],
                    !.ch = <<MustNewConstMetric(collector.adminUpDesc, 0, <<>>)>>,
                    !.logged = <<"Failed to connect to admin server">>]]
    /\ UNCHANGED <<mainVars, envVars>>

\* variant: the collector keeps its samples in a field it never resets, so a
\* scrape sends the samples of the handler's earlier scrape before its own
CollectGetKeepsSamples(s) ==
    /\ CanScrape(s)
    /\ LET resp == [err |-> FALSE, status |-> upstream.status,
                    body |-> upstream.body] IN
       sc' = [sc EXCEPT ![s] =
                IF StatusNotOK(resp)
                THEN [Fresh(s) EXCEPT
                        !.pc = "done",
                        !.resp = resp,
                        !.ch = sc[s].ch \o
                               <<MustNewConstMetric(collector.adminUpDesc, 0, <<>>)>>,
                        !.logged = <<"Admin server returned status">>]
                ELSE [Fresh(s) EXCEPT
                        !.pc = "decode",
                        !.resp = resp,
                        !.ch = sc[s].ch \o
                               <<MustNewConstMetric(collector.adminUpDesc, 1, <<>>)>>]]
    /\ UNCHANGED <<mainVars, envVars>>

\* c.client.Get returns a response: the status check and the admin_up sample
CollectGet(s) ==
    /\ CanScrape(s)
    /\ LET resp == [err |-> FALSE, status |-> upstream.status,
                    body |-> upstream.body] IN
       sc' = [sc EXCEPT ![s] =
                IF StatusNotOK(resp)
                THEN [Fresh(s) EXCEPT
                        !.pc = "done",
                        !.resp = resp,
                        !.ch = <<MustNewConstMetric(collector.adminUpDesc, 0, <<>>)>>,
                        !.logged = <<"Admin server returned status">>]
                ELSE [Fresh(s) EXCEPT
                        !.pc = "decode",
                        !.resp = resp,
                        !.ch = <<MustNewConstMetric(collector.adminUpDesc, 1, <<>>)>>]]
    /\ UNCHANGED <<mainVars, envVars>>

\* the decoder reads the whole body; on success the loop over the items sends
\* the server_up sample
CollectDecode(s) ==
    /\ pc = "serving"
    /\ sc[s].pc = "decode"
    /\ LET dec == Decode(sc[s].resp.body) IN
       sc' = [sc EXCEPT ![s] =
                IF dec.err
                THEN [@ EXCEPT
                        !.pc = "done",
                        !.bodyRead = TRUE,
                        !.decErr = TRUE,
                        !.logged = @ \o <<"Failed to parse server runtimes">>]
                ELSE LET st == ServerStatus(collector, dec.runtimes.Body.Items) IN
                     [@ EXCEPT
                        !.pc = "procs",
                        !.bodyRead = TRUE,
                        !.runtimes = dec.runtimes,
                        !.ch = @ \o st.out,
                        !.logged = @ \o (IF st.serverFound THEN <<>>
                                         ELSE <<"Server not found in domain">>)]]
    /\ UNCHANGED <<mainVars, envVars>>

\* the connection is lost, or the client's timeout fires, while the decoder
\* reads the body: Decode returns the read error
CollectDecodeReadError(s) ==
    /\ pc = "serving"
    /\ sc[s].pc = "decode"
    /\ sc' = [sc EXCEPT ![s] =
                [@ EXCEPT
                    !.pc = "done",
                    !.bodyRead = TRUE,
                    !.decErr = TRUE,
                    !.logged = @ \o <<"Failed to parse server runtimes">>]]
    /\ UNCHANGED <<mainVars, envVars>>

\* process.Processes() returns the processes alive now
CollectProcesses(s) ==
    /\ pc = "serving"
    /\ sc[s].pc = "procs"
    /\ sc' = [sc EXCEPT ![s] =
                [@ EXCEPT
                    !.pc = IF procs = <<>> THEN "done" ELSE "loop",
                    !.tableRead = TRUE,
                    !.processes = [i \in 1..Len(procs) |-> [pid |-> procs[i].pid]]]]
    /\ UNCHANGED <<mainVars, envVars>>

\* variant: the error branch is a copy of the one of the GET and reports the
\* admin server down
CollectProcessesFailsAdminDown(s) ==
    /\ pc = "serving"
    /\ sc[s].pc = "procs"
    /\ sc' = [sc EXCEPT ![s] =
                [@ EXCEPT
                    !.pc = "done",
                    !.tableRead = TRUE,
                    !.tableErr = TRUE,
                    !.ch = <<MustNewConstMetric(collector.adminUpDesc, 0, <<>>)>>,
                    !.logged = @ \o <<"Failed to retrieve processes">>]]
    /\ UNCHANGED <<mainVars, envVars>>

\* process.Processes() returns an error
CollectProcessesFails(s) ==
    /\ pc = "serving"
    /\ sc[s].pc = "procs"
    /\ sc' = [sc EXCEPT ![s] =
                [@ EXCEPT
                    !.pc = "done",
                    !.tableRead = TRUE,
                    !.tableErr = TRUE,
                    !.logged = @ \o <<"Failed to retrieve processes">>]]
    /\ UNCHANGED <<mainVars, envVars>>

\* variant: a CmdlineSlice error ends the loop (break for continue)
CollectCmdlineStopsOnError(s) ==
    /\ pc = "serving"
    /\ sc[s].pc = "loop"
    /\ LET p    == sc[s].processes[Len(sc[s].reads) + 1]
           r    == CmdlineSlice(p)
           last == r.err \/ Len(sc[s].reads) + 1 = Len(sc[s].processes)
           ms   == IF ~r.err /\ Contains(r.cmdline, Marker(collector))
                   THEN ArgMetrics(collector, p, r.cmdline)
                   ELSE <<>>
       IN /\ sc' = [sc EXCEPT ![s] =
                      [@ EXCEPT
                          !.pc = IF Panics(ms) THEN "panicked"
                                 ELSE IF last THEN "done" ELSE "loop",
                          !.reads = @ \o <<[pid |-> p.pid, err |-> r.err,
                                            cmdline |-> r.cmdline]>>,
                          !.ch = @ \o Sent(ms)]]
          /\ IF Panics(ms)
             THEN pc' = "exited" /\ exitStatus' = PanicExit
             ELSE UNCHANGED <<pc, exitStatus>>
    /\ UNCHANGED <<argv, flags, collector, registered, listening, envVars>>

\* one turn of the loop over the processes: CmdlineSlice, the test for the
\* marker, and the samples of the arguments.  A panic of MustNewConstMetric
\* ends the program, the samples of the earlier arguments already sent.
CollectCmdline(s) ==
    /\ pc = "serving"
    /\ sc[s].pc = "loop"
    /\ LET p    == sc[s].processes[Len(sc[s].reads) + 1]
           r    == CmdlineSlice(p)
           last == Len(sc[s].reads) + 1 = Len(sc[s].processes)
           ms   == IF r.err THEN <<>>
                   ELSE IF Contains(r.cmdline, Marker(collector))
                        THEN ArgMetrics(collector, p, r.cmdline)
                        ELSE <<>>
       IN /\ sc' = [sc EXCEPT ![s] =
                      [@ EXCEPT
                          !.pc = IF Panics(ms) THEN "panicked"
                                 ELSE IF last THEN "done" ELSE "loop",
                          !.reads = @ \o <<[pid |-> p.pid, err |-> r.err,
                                            cmdline |-> r.cmdline]>>,
                          !.ch = @ \o Sent(ms)]]
          /\ IF Panics(ms)
             THEN pc' = "exited" /\ exitStatus' = PanicExit
             ELSE UNCHANGED <<pc, exitStatus>>
    /\ UNCHANGED <<argv, flags, collector, registered, listening, envVars>>

(***************************************************************************)
(* The environment.                                                        *)
(***************************************************************************)
Without(seq, i) == [j \in 1..(Len(seq) - 1) |-> IF j < i THEN seq[j] ELSE seq[j + 1]]

\* a process of the table exits
ProcessExit ==
    /\ pc = "serving"
    /\ \E i \in 1..Len(procs) : procs' = Without(procs, i)
    /\ UNCHANGED <<mainVars, upstream, sc>>

(***************************************************************************)
(* Initial states.                                                         *)
(***************************************************************************)
TargetName == "AdminServer"
OtherName == "ms1"

Arg(name, value) == [name |-> name, value |-> value]

\* the four required flags, each given with a value
RequiredArgs ==
    <<Arg("admin-url", "http://localhost:7001"), Arg("username", "weblogic"),
      Arg("password", "welcome1"), Arg("server-name", TargetName)>>

\* the required flags whose position is in S, in order
Given(S) ==
    LET pick(i) == IF i \in S THEN <<RequiredArgs[i]>> ELSE <<>>
    IN pick(1) \o pick(2) \o pick(3) \o pick(4)

\* -port with a numeral, -port with something else, or no -port
PortArgs == {<<>>, <<Arg("port", "9300")>>, <<Arg("port", "abc")>>}

\* a help request or an undefined flag, before or after the other arguments
Strays == {<<Arg("h", "")>>, <<Arg("bogus", "")>>}

Argvs ==
    LET plain == {Given(S) \o pa : S \in SUBSET (1..4), pa \in PortArgs}
    IN plain \cup {x \o a : x \in Strays, a \in plain}
             \cup {a \o x : x \in Strays, a \in plain}

\* the command line that gives the four required flags and nothing else
FullArgv == Given(1..4)

SeqsUpTo(S, n) == UNION {[1..k -> S] : k \in 0..n}

ServerRuntimes ==
    {[name |-> TargetName, state |-> s] : s \in {"RUNNING", "SHUTDOWN", "running"}}
        \cup {[name |-> OtherName, state |-> "RUNNING"]}

Malformed == [wellformed |-> FALSE, items |-> <<>>]
Body(items) == [wellformed |-> TRUE, items |-> items]
TargetRunning == Body(<<[name |-> TargetName, state |-> "RUNNING"]>>)
TargetAbsent == Body(<<[name |-> OtherName, state |-> "RUNNING"]>>)

Upstreams ==
    {[status |-> StatusOK, body |-> Body(it)] : it \in SeqsUpTo(ServerRuntimes, MaxItems)}
        \cup {[status |-> StatusOK, body |-> Malformed]}
        \cup {[status |-> s, body |-> b] : s \in {401, 503}, b \in {Malformed, TargetRunning}}

UpstreamsSmall ==
    {[status |-> StatusOK, body |-> TargetRunning],
     [status |-> StatusOK, body |-> TargetAbsent]}

TargetMarker == "-Dweblogic.Name=" \o TargetName
NearMiss == "-Dweblogic.Name=" \o TargetName \o "2"
NonUTF8Arg == CHOOSE v \in NonUTF8 : TRUE
Args == {TargetMarker, NearMiss, NonUTF8Arg}

Readable(cl) == [readable |-> TRUE, cmdline |-> cl]
Unreadable(cl) == [readable |-> FALSE, cmdline |-> cl]

\* the kinds of process a table of several processes is made of
ProcessKinds ==
    {Readable(<<NearMiss, TargetMarker>>), Readable(<<TargetMarker, TargetMarker>>),
     Readable(<<NearMiss>>), Unreadable(<<TargetMarker>>),
     Readable(<<TargetMarker, NonUTF8Arg>>)}

\* pids are unique within a table
WithPids(ks) ==
    [i \in 1..Len(ks) |->
        [pid |-> 100 * i + 1, readable |-> ks[i].readable, cmdline |-> ks[i].cmdline]]

\* one process with any argument vector, or several processes of the kinds
ProcTables ==
    {WithPids(<<Readable(cl)>>) : cl \in SeqsUpTo(Args, MaxArgs)}
        \cup {WithPids(ks) : ks \in SeqsUpTo(ProcessKinds, MaxProcs)}

ProcTablesSmall ==
    {<<>>, WithPids(<<Readable(<<NearMiss, TargetMarker>>)>>)}

Envs ==
    {<<u, t>> : u \in Upstreams, t \in ProcTablesSmall}
        \cup {<<u, t>> : u \in UpstreamsSmall, t \in ProcTables}

Init ==
    /\ pc = "main"
    /\ argv \in Argvs
    /\ flags = DefaultFlags
    /\ exitStatus = 0
    /\ collector = NoCollector
    /\ registered = FALSE
    /\ listening = FALSE
    /\ \E e \in (IF argv = FullArgv THEN Envs
                 ELSE {<<[status |-> StatusOK, body |-> TargetRunning], <<>>>>}) :
          /\ upstream = e[1]
          /\ procs = e[2]
    /\ sc = [s \in Scrapers |-> Idle]

Next ==
    \/ MainParse
    \/ MainValidate
    \/ MainRegister
    \/ MainListen
    \/ MainListenFails
    \/ \E s \in Scrapers :
          \/ CollectGet(s)
          \/ CollectGetFails(s)
          \/ CollectDecode(s)
          \/ CollectDecodeReadError(s)
          \/ CollectProcesses(s)
          \/ CollectProcessesFails(s)
          \/ CollectCmdline(s)
    \/ ProcessExit

Spec == Init /\ [][Next]_vars

(***************************************************************************)
(* Vocabulary of the properties: the samples as a scraper sees them, and   *)
(* what the calls of a scrape returned.                                    *)
(***************************************************************************)
AdminUpSample(v) ==
    [name |-> "weblogic_admin_server_up", labels |-> <<>>, value |-> v]

ServerUpSample(server, v) ==
    [name |-> "weblogic_server_up",
     labels |-> << <<"server_name", server>> >>,
     value |-> v]

ProcessArgSample(server, pid, index, arg) ==
    [name |-> "process_arg",
     labels |-> << <<"server_name", server>>, <<"pid", pid>>,
                   <<"index", index>>, <<"value", arg>> >>,
     value |-> 1]

Named(q, n) == SelectSeq(q, LAMBDA m : m.name = n)
Range(q) == {q[i] : i \in 1..Len(q)}

\* the samples of q other than process_arg
AdminAndServer(q) == SelectSeq(q, LAMBDA m : m.name # "process_arg")

\* the process_arg samples of q that carry the pid label `pid`
ArgsOfPid(q, pid) ==
    SelectSeq(q, LAMBDA m : m.name = "process_arg" /\ m.labels[2] = <<"pid", pid>>)

ConfiguredMarker == "-Dweblogic.Name=" \o flags.serverName

\* CmdlineSlice returned arguments that hold the marker as a whole argument
Matched(rd) ==
    /\ ~rd.err
    /\ \E i \in 1..Len(rd.cmdline) : rd.cmdline[i] = ConfiguredMarker

Started(l) == l.pc # "idle"
Finished(l) == l.pc = "done"
\* Collect has returned, or a panic has ended it
Ended(l) == l.pc \in {"done", "panicked"}
AdminDown(l) == Started(l) /\ (l.resp.err \/ l.resp.status # 200)
AdminOK(l) == Started(l) /\ ~l.resp.err /\ l.resp.status = 200
Decoded(l) == AdminOK(l) /\ l.bodyRead /\ ~l.decErr
Items(l) == l.runtimes.Body.Items
NameAt(l, i) == Items(l)[i].name = flags.serverName
NameOccurs(l) == \E i \in 1..Len(Items(l)) : NameAt(l, i)
FirstMatch(l) == CHOOSE i \in 1..Len(Items(l)) :
                     NameAt(l, i) /\ \A j \in 1..(i - 1) : ~NameAt(l, j)

\* everything the calls of the scrape returned
Inputs(l) ==
    <<l.resp, l.bodyRead, l.decErr, l.runtimes, l.tableRead, l.tableErr,
      l.processes, l.reads>>

\* a live process that is readable and holds the marker
LiveMatch ==
    \E i \in 1..Len(procs) :
        /\ procs[i].readable
        /\ \E j \in 1..Len(procs[i].cmdline) : procs[i].cmdline[j] = ConfiguredMarker

\* C1: a scrape whose GET fails or returns a status other than 200 sends
\* exactly one sample, admin_up = 0, and ends; the body is not decoded and
\* the process table is not enumerated.
C1_DownSendsOnlyAdminZero ==
    \A s \in Scrapers :
        AdminDown(sc[s]) =>
            /\ Finished(sc[s])
            /\ sc[s].ch = <<AdminUpSample(0)>>
            /\ ~sc[s].bodyRead
            /\ ~sc[s].tableRead
            /\ sc[s].reads = <<>>

\* a 503 whose body would decode to a RUNNING target, beside a matching process
C1_Witness ==
    \E s \in Scrapers :
        /\ Started(sc[s])
        /\ ~sc[s].resp.err
        /\ sc[s].resp.status = 503
        /\ sc[s].resp.body = TargetRunning
        /\ LiveMatch
        /\ sc[s].ch = <<AdminUpSample(0)>>

\* C2: on a 200 whose items hold the configured name, the scrape sends
\* admin_up = 1 and a server_up sample labelled with the name, whose value is
\* 1 exactly when the state of the first entry with the name is "RUNNING".
C2_FirstMatchDecides ==
    \A s \in Scrapers :
        (Decoded(sc[s]) /\ NameOccurs(sc[s])) =>
            /\ sc[s].ch[1] = AdminUpSample(1)
            /\ Range(Named(sc[s].ch, "weblogic_server_up")) =
                  {ServerUpSample(flags.serverName,
                      IF Items(sc[s])[FirstMatch(sc[s])].state = "RUNNING" THEN 1 ELSE 0)}

\* the first entry with the name is "running" in lower case, a later one RUNNING
C2_Witness ==
    \E s \in Scrapers :
        /\ Finished(sc[s])
        /\ Decoded(sc[s])
        /\ Items(sc[s]) = <<[name |-> "AdminServer", state |-> "running"],
                            [name |-> "AdminServer", state |-> "RUNNING"]>>
        /\ ServerUpSample("AdminServer", 0) \in Range(sc[s].ch)

\* C3: a scrape sends at most one server_up sample: exactly one when the body
\* decoded and the configured name occurs in items, none when the name is
\* absent (admin_up = 1 is still sent).
C3_AtMostOneServerUp ==
    \A s \in Scrapers :
        LET n == Len(Named(sc[s].ch, "weblogic_server_up")) IN
        /\ n <= 1
        /\ (Decoded(sc[s]) /\ NameOccurs(sc[s])) => n = 1
        /\ (Decoded(sc[s]) /\ ~NameOccurs(sc[s])) =>
              (n = 0 /\ AdminUpSample(1) \in Range(sc[s].ch))

\* the configured name occurs twice in items and one sample was sent
C3_Witness ==
    \E s \in Scrapers :
        /\ Finished(sc[s])
        /\ Decoded(sc[s])
        /\ Len(Items(sc[s])) >= 2
        /\ NameAt(sc[s], 1)
        /\ NameAt(sc[s], 2)
        /\ Len(Named(sc[s].ch, "weblogic_server_up")) = 1

\* C4: in a scrape that reaches the process phase, every process of the
\* table that is readable and whose L arguments hold the marker gets exactly
\* L process_arg samples, the i-th (from 0) with value 1 and labels
\* server_name, pid, index = i, value = the i-th argument: as soon as the
\* loop has visited the process, and for every enumerated process once the
\* scrape has ended.
C4_OneSamplePerArgument ==
    \A s \in Scrapers :
        \A k \in 1..Len(sc[s].processes) :
            LET visited == k <= Len(sc[s].reads)
                p  == sc[s].processes[k]
                rd == IF visited THEN sc[s].reads[k]
                      ELSE [pid |-> p.pid, err |-> CmdlineSlice(p).err,
                            cmdline |-> CmdlineSlice(p).cmdline]
            IN ((visited \/ Ended(sc[s])) /\ Matched(rd)) =>
                   ArgsOfPid(sc[s].ch, ToString(rd.pid)) =
                       [i \in 1..Len(rd.cmdline) |->
                           ProcessArgSample(flags.serverName, ToString(rd.pid),
                                            ToString(i - 1), rd.cmdline[i])]

\* C5: every process_arg sample carries the pid of a process whose arguments
\* were read and hold the marker as a whole argument, and an unreadable
\* process does not end the loop: a scrape that enumerated the processes
\* ends having called CmdlineSlice on every one of them.
C5_OnlyMatchingProcesses ==
    \A s \in Scrapers :
        /\ \A i \in 1..Len(sc[s].ch) :
              sc[s].ch[i].name = "process_arg" =>
                  \E k \in 1..Len(sc[s].reads) :
                      /\ sc[s].ch[i].labels[2] = <<"pid", ToString(sc[s].reads[k].pid)>>
                      /\ Matched(sc[s].reads[k])
        /\ (Finished(sc[s]) /\ sc[s].tableRead /\ ~sc[s].tableErr) =>
              [k \in 1..Len(sc[s].reads) |-> sc[s].reads[k].pid] =
                  [k \in 1..Len(sc[s].processes) |-> sc[s].processes[k].pid]

\* an unreadable process, then one that matches: only the second has samples
C5_Witness ==
    \E s \in Scrapers :
        /\ Finished(sc[s])
        /\ Len(sc[s].reads) = 2
        /\ sc[s].reads[1].err
        /\ Matched(sc[s].reads[2])
        /\ ArgsOfPid(sc[s].ch, "101") = <<>>
        /\ ArgsOfPid(sc[s].ch, "201") # <<>>

\* C6: the admin_up and server_up samples do not depend on the process phase:
\* two finished scrapes that got the same response and the same decoded body
\* sent the same admin_up and server_up samples, whatever the process phase
\* of each gave; and a scrape in which no process matched sent no process_arg
\* sample.
C6_ProcessPhaseLeavesRest ==
    /\ \A s, t \in Scrapers :
          (/\ Finished(sc[s])
           /\ Finished(sc[t])
           /\ sc[s].resp = sc[t].resp
           /\ sc[s].bodyRead = sc[t].bodyRead
           /\ sc[s].decErr = sc[t].decErr
           /\ sc[s].runtimes = sc[t].runtimes) =>
              AdminAndServer(sc[s].ch) = AdminAndServer(sc[t].ch)
    /\ \A s \in Scrapers :
          (\A k \in 1..Len(sc[s].reads) : ~Matched(sc[s].reads[k])) =>
              Named(sc[s].ch, "process_arg") = <<>>

\* the same decoded response in two scrapes: the enumeration failed in one,
\* a process matched in the other, and both sent server_up
C6_Witness ==
    \E s, t \in Scrapers :
        /\ Finished(sc[s])
        /\ Finished(sc[t])
        /\ Decoded(sc[s])
        /\ sc[s].runtimes = sc[t].runtimes
        /\ sc[s].tableErr
        /\ Named(sc[t].ch, "process_arg") # <<>>
        /\ Named(sc[s].ch, "weblogic_server_up") # <<>>
        /\ Named(sc[s].ch, "weblogic_server_up") = Named(sc[t].ch, "weblogic_server_up")

\* C7: the samples of a scrape are a function of what its calls returned: two
\* finished scrapes that saw the same response and the same processes sent
\* the same samples, whatever their handlers scraped before.
C7_SameInputsSameSamples ==
    \A s, t \in Scrapers :
        (Finished(sc[s]) /\ Finished(sc[t]) /\ Inputs(sc[s]) = Inputs(sc[t])) =>
            sc[s].ch = sc[t].ch

\* two scrapes with the same inputs, one on a handler whose previous scrape
\* had found the admin server down
C7_Witness ==
    \E s, t \in Scrapers :
        /\ s # t
        /\ Finished(sc[s])
        /\ Finished(sc[t])
        /\ Inputs(sc[s]) = Inputs(sc[t])
        /\ sc[t].prevDown
        /\ ~sc[s].prevDown
        /\ Named(sc[t].ch, "process_arg") # <<>>

AnyRequiredEmpty ==
    flags.adminURL = "" \/ flags.username = "" \/ flags.password = ""
        \/ flags.serverName = ""

\* an argument flag.Parse stops at: a flag that is not defined (-h among
\* them), or a -port that is no number
Stops(a) ==
    \/ a.name \notin {"admin-url", "username", "password", "server-name", "port"}
    \/ a.name = "port" /\ a.value # "9300"

Parses == \A i \in 1..Len(argv) : ~Stops(argv[i])
FirstStop == argv[CHOOSE i \in 1..Len(argv) :
                      Stops(argv[i]) /\ \A j \in 1..(i - 1) : ~Stops(argv[j])]

\* C8 as claimed: with a required flag empty the program exits with status 1,
\* the collector not registered and no listener bound; a bound listener means
\* all four flags are non-empty.
C8_EmptyFlagExitsWithOne ==
    /\ AnyRequiredEmpty =>
          /\ pc \in {"main", "validate", "exited"}
          /\ ~registered
          /\ ~listening
          /\ pc = "exited" => exitStatus = 1
    /\ listening => ~AnyRequiredEmpty

\* C8, as the code behaves: with a required flag empty the program exits
\* before the collector is registered and before a listener is bound, with
\* status 1 when the command line parses, and when flag.Parse stops at an
\* argument with status 0 for -h or -help and 2 otherwise; a bound listener
\* means all four flags are non-empty.
C8_EmptyFlagExits ==
    /\ AnyRequiredEmpty =>
          /\ pc \in {"main", "validate", "exited"}
          /\ ~registered
          /\ ~listening
          /\ pc = "exited" =>
                exitStatus = (IF Parses THEN 1
                              ELSE IF FirstStop.name \in {"h", "help"} THEN 0
                              ELSE 2)
    /\ listening => ~AnyRequiredEmpty

\* the command line parses, only the password is missing, and the program
\* has exited with status 1
C8_UsageExitReached ==
    /\ pc = "exited"
    /\ Parses
    /\ flags.password = ""
    /\ flags.adminURL # ""
    /\ flags.username # ""
    /\ flags.serverName # ""
    /\ exitStatus = 1

\* C9: on a 200 whose body does not decode (it is malformed, or reading it
\* failed), the scrape sends exactly one sample, admin_up = 1, and ends: the
\* process table is not enumerated.
C9_DecodeFailureStops ==
    \A s \in Scrapers :
        (/\ AdminOK(sc[s])
         /\ sc[s].bodyRead
         /\ (sc[s].decErr \/ ~sc[s].resp.body.wellformed)) =>
            /\ Finished(sc[s])
            /\ sc[s].ch = <<AdminUpSample(1)>>
            /\ ~sc[s].tableRead
            /\ sc[s].reads = <<>>

\* a malformed 200 beside a matching process
C9_Witness ==
    \E s \in Scrapers :
        /\ AdminOK(sc[s])
        /\ sc[s].decErr
        /\ ~sc[s].resp.body.wellformed
        /\ LiveMatch
        /\ sc[s].ch = <<AdminUpSample(1)>>

\* C10: within a scrape no two samples share metric name and label values:
\* one admin_up, at most one server_up, and two process_arg samples differ in
\* pid or in index.
C10_NoDuplicateSamples ==
    \A s \in Scrapers :
        Started(sc[s]) =>
            /\ Len(Named(sc[s].ch, "weblogic_admin_server_up")) = 1
            /\ Len(Named(sc[s].ch, "weblogic_server_up")) <= 1
            /\ \A i, j \in 1..Len(sc[s].ch) :
                  i < j =>
                      /\ <<sc[s].ch[i].name, sc[s].ch[i].labels>> #
                            <<sc[s].ch[j].name, sc[s].ch[j].labels>>
                      /\ (sc[s].ch[i].name = "process_arg"
                             /\ sc[s].ch[j].name = "process_arg") =>
                            <<sc[s].ch[i].labels[2], sc[s].ch[i].labels[3]>> #
                                <<sc[s].ch[j].labels[2], sc[s].ch[j].labels[3]>>

\* two processes matched, each with the marker given twice
C10_Witness ==
    \E s \in Scrapers :
        /\ Finished(sc[s])
        /\ Len(sc[s].reads) = 2
        /\ \A k \in 1..2 :
              sc[s].reads[k].cmdline = <<ConfiguredMarker, ConfiguredMarker>>
        /\ Len(Named(sc[s].ch, "process_arg")) = 4

====
